---- MODULE Spec2Model ----
(***************************************************************************)
(* Model of LockerService (Amazon Locker System/Cpp/AmazonLocker.cpp).      *)
(*                                                                         *)
(* Strings are sequences of one-character strings, so that concatenation   *)
(* (operator +), std::to_string and std::string::front are computed and    *)
(* not assumed:  "S-0" is <<"S", "-", "0">>.                               *)
(*                                                                         *)
(* Spec is the service called by one caller at a time, as in main: each    *)
(* call of deposit, pickup and cleanup is one action.  (deposit and pickup *)
(* hold the mutex from their first access of the state to their last;      *)
(* cleanup reads the clock before it takes the mutex.)                     *)
(*                                                                         *)
(* SpecConc is the service called by several threads: a call is a sequence *)
(* of steps of its thread (wait for the mutex, each access of the pools    *)
(* and the table, release), interleaved with the steps of the others.      *)
(***************************************************************************)
EXTENDS Integers, Sequences, FiniteSets, TLC

VARIABLES
    queues,         \* std::deque<std::string> queues[3], index 0..2
    activeTickets,  \* std::unordered_map<std::string, Ticket>
    time,           \* MockClock::time, what Clock::currentTimeMillis returns
    ticks,          \* number of advances of the clock so far (bounds the model)
    calls,          \* number of calls of the service so far (bounds the model)
    lastOp,         \* the last call: its arguments, its result, what it printed
    pre,            \* queues, activeTickets and retired as they were when the last call began
    prev,           \* the call before the last and its pre, when it was a successful deposit
    retired,        \* codes of tickets consumed by pickup or removed by cleanup
    sweptAt,        \* clock reading of the latest cleanup, while no deposit followed it
    mtx,            \* std::mutex mtx: the thread that holds it, or Free
    pc,             \* per thread: where its call stands
    loc,            \* per thread: the arguments and local variables of its call
    scan,           \* the entry a cleanup has just erased, and the clock at that moment
    ended           \* how the last call ended, while no call has begun since

\* what the calls of one caller record
seqvars == <<lastOp, pre, prev, retired, sweptAt>>

\* what the calls of several threads add
concvars == <<mtx, pc, loc, scan, ended>>

vars == <<queues, activeTickets, time, ticks, calls, lastOp, pre, prev, retired, sweptAt,
          mtx, pc, loc, scan, ended>>

----------------------------------------------------------------------------
(* Bounds of the model *)

\* lockers seeded per size class (the constructor seeds 10 of each)
LockersPerClass == 2

\* number of times the clock is advanced
MaxTicks == 3

\* number of calls of deposit, pickup and cleanup
MaxCalls == 5

\* number of threads that call the service at the same time
NumThreads == 2

\* number of calls the threads make together
MaxInvocations == 3

----------------------------------------------------------------------------
(* enum class Size *)

SMALL == 0

MEDIUM == 1

LARGE == 2

Sizes == {SMALL, MEDIUM, LARGE}

sizeToInt(s) == s

sizeToString(s) ==
    IF s = SMALL THEN <<"S","M","A","L","L">>
    ELSE IF s = MEDIUM THEN <<"M","E","D","I","U","M">>
    ELSE IF s = LARGE THEN <<"L","A","R","G","E">>
    ELSE <<"U","N","K","N","O","W","N">>

----------------------------------------------------------------------------
(* Strings *)

DigitChars == <<"0", "1", "2", "3", "4", "5", "6", "7", "8", "9">>

\* std::to_string of a non-negative integer
RECURSIVE to_string(_)
to_string(n) ==
    IF n < 10 THEN <<DigitChars[n + 1]>>
    ELSE to_string(n \div 10) \o <<DigitChars[(n % 10) + 1]>>

EmptyString == << >>

\* the prefixes the constructor gives the lockers of queues[0], [1], [2]
ClassPrefix == [k \in 0..2 |-> <<"S", "M", "L">>[k + 1]]

\* "S-" + std::to_string(i)
LockerName(k, i) == <<ClassPrefix[k], "-">> \o to_string(i)

\* the inventory the constructor seeds
Inventory == {LockerName(k, i) : k \in 0..2, i \in 0..(LockersPerClass - 1)}

----------------------------------------------------------------------------
(* Clock and constants of the service *)

\* MockClock::time at construction
StartTime == 1000

\* cleanup's retention threshold
threeDaysInMillis == 3 * 24 * 60 * 60 * 1000

\* the modulus of the code's numeric suffix
CodeModulus == 10000

\* the amount the driver advances the clock by at its n-th advance (n = 0, 1, ...):
\* one millisecond, then one millisecond short of the retention threshold, and
\* so on, so that tickets are swept at ages threshold - 1, threshold and
\* threshold + 1, and deposits happen at instants equal modulo 10000
Advance(n) == IF n % 2 = 0 THEN 1 ELSE threeDaysInMillis - 1

----------------------------------------------------------------------------
(* Ticket and the ticket table *)

\* Ticket with the first two initialisers in the wrong order
Ticket_SwappedFields(lockerId, code, creationTime) ==
    [lockerId |-> code, code |-> lockerId, creationTime |-> creationTime]

Ticket(lockerId, code, creationTime) ==
    [lockerId |-> lockerId, code |-> code, creationTime |-> creationTime]

NoTicket == Ticket(EmptyString, EmptyString, 0)

EmptyTable == [c \in {} |-> NoTicket]

\* MapPut keyed by the locker name instead of the code
MapPut_ByLocker(m, code, ticket) ==
    [c \in (DOMAIN m) \cup {ticket.lockerId} |->
        IF c = ticket.lockerId THEN ticket ELSE m[c]]

\* activeTickets[code] = ticket
MapPut(m, code, ticket) ==
    [c \in (DOMAIN m) \cup {code} |-> IF c = code THEN ticket ELSE m[c]]

\* MapErase with the erase left out
MapErase_Keep(m, code) == m

\* MapErase emptying the table (clear() for erase(it))
MapErase_Clear(m, code) == [c \in {} |-> m[code]]

\* activeTickets.erase(it)
MapErase(m, code) == [c \in (DOMAIN m) \ {code} |-> m[c]]

\* MapFind that also turns down a ticket older than the retention threshold
MapFind_Unexpired(m, code) ==
    code \in DOMAIN m /\ ~(time - m[code].creationTime > 3 * 24 * 60 * 60 * 1000)

\* activeTickets.find(code) != activeTickets.end()
MapFind(m, code) == code \in DOMAIN m

\* MapAt reading the table's first entry instead of the one found
MapAt_First(m, code) == m[CHOOSE c \in DOMAIN m : TRUE]

\* it->second, for the iterator find(code) returned
MapAt(m, code) == m[code]

----------------------------------------------------------------------------
(* Pools *)

PopFront(q, k) == [q EXCEPT ![k] = Tail(@)]

\* Found with the pop_front left out
Found_NoPop(q, k) == [id |-> Head(q[k]), queues |-> q]

\* one arm of findBestFit: s = queues[k].front(); queues[k].pop_front(); return s
Found(q, k) == [id |-> Head(q[k]), queues |-> PopFront(q, k)]

\* findBestFit with the cascade of SMALL trying queues[2] before queues[1]
findBestFit_LargestFirst(q, requestedSize) ==
    IF requestedSize = SMALL THEN
        IF q[0] # << >> THEN Found(q, 0)
        ELSE IF q[2] # << >> THEN Found(q, 2)
        ELSE IF q[1] # << >> THEN Found(q, 1)
        ELSE [id |-> EmptyString, queues |-> q]
    ELSE IF requestedSize = MEDIUM THEN
        IF q[1] # << >> THEN Found(q, 1)
        ELSE IF q[2] # << >> THEN Found(q, 2)
        ELSE [id |-> EmptyString, queues |-> q]
    ELSE IF requestedSize = LARGE THEN
        IF q[2] # << >> THEN Found(q, 2)
        ELSE [id |-> EmptyString, queues |-> q]
    ELSE [id |-> EmptyString, queues |-> q]

\* findBestFit with LARGE falling back to queues[1] when queues[2] is empty
findBestFit_Downward(q, requestedSize) ==
    IF requestedSize = SMALL THEN
        IF q[0] # << >> THEN Found(q, 0)
        ELSE IF q[1] # << >> THEN Found(q, 1)
        ELSE IF q[2] # << >> THEN Found(q, 2)
        ELSE [id |-> EmptyString, queues |-> q]
    ELSE IF requestedSize = MEDIUM THEN
        IF q[1] # << >> THEN Found(q, 1)
        ELSE IF q[2] # << >> THEN Found(q, 2)
        ELSE [id |-> EmptyString, queues |-> q]
    ELSE IF requestedSize = LARGE THEN
        IF q[2] # << >> THEN Found(q, 2)
        ELSE IF q[1] # << >> THEN Found(q, 1)
        ELSE [id |-> EmptyString, queues |-> q]
    ELSE [id |-> EmptyString, queues |-> q]

\* findBestFit with LARGE popping queues[1] when queues[2] is empty and then
\* reporting failure
findBestFit_PopThenFail(q, requestedSize) ==
    IF requestedSize = SMALL THEN
        IF q[0] # << >> THEN Found(q, 0)
        ELSE IF q[1] # << >> THEN Found(q, 1)
        ELSE IF q[2] # << >> THEN Found(q, 2)
        ELSE [id |-> EmptyString, queues |-> q]
    ELSE IF requestedSize = MEDIUM THEN
        IF q[1] # << >> THEN Found(q, 1)
        ELSE IF q[2] # << >> THEN Found(q, 2)
        ELSE [id |-> EmptyString, queues |-> q]
    ELSE IF requestedSize = LARGE THEN
        IF q[2] # << >> THEN Found(q, 2)
        ELSE IF q[1] # << >> THEN [id |-> EmptyString, queues |-> PopFront(q, 1)]
        ELSE [id |-> EmptyString, queues |-> q]
    ELSE [id |-> EmptyString, queues |-> q]

\* findBestFit: the locker id it returns ("" on failure) and the queues it leaves
findBestFit(q, requestedSize) ==
    IF requestedSize = SMALL THEN
        IF q[0] # << >> THEN Found(q, 0)
        ELSE IF q[1] # << >> THEN Found(q, 1)
        ELSE IF q[2] # << >> THEN Found(q, 2)
        ELSE [id |-> EmptyString, queues |-> q]
    ELSE IF requestedSize = MEDIUM THEN
        IF q[1] # << >> THEN Found(q, 1)
        ELSE IF q[2] # << >> THEN Found(q, 2)
        ELSE [id |-> EmptyString, queues |-> q]
    ELSE IF requestedSize = LARGE THEN
        IF q[2] # << >> THEN Found(q, 2)
        ELSE [id |-> EmptyString, queues |-> q]
    ELSE [id |-> EmptyString, queues |-> q]

\* returnLocker with the 'M' arm pushing to queues[0]
returnLocker_WrongPool(q, lockerId) ==
    IF Head(lockerId) = "S" THEN [q EXCEPT ![0] = Append(@, lockerId)]
    ELSE IF Head(lockerId) = "M" THEN [q EXCEPT ![0] = Append(@, lockerId)]
    ELSE IF Head(lockerId) = "L" THEN [q EXCEPT ![2] = Append(@, lockerId)]
    ELSE q

\* returnLocker with push_front for push_back
returnLocker_PushFront(q, lockerId) ==
    IF Head(lockerId) = "S" THEN [q EXCEPT ![0] = <<lockerId>> \o @]
    ELSE IF Head(lockerId) = "M" THEN [q EXCEPT ![1] = <<lockerId>> \o @]
    ELSE IF Head(lockerId) = "L" THEN [q EXCEPT ![2] = <<lockerId>> \o @]
    ELSE q

\* returnLocker: the queues after the call
returnLocker(q, lockerId) ==
    IF Head(lockerId) = "S" THEN [q EXCEPT ![0] = Append(@, lockerId)]
    ELSE IF Head(lockerId) = "M" THEN [q EXCEPT ![1] = Append(@, lockerId)]
    ELSE IF Head(lockerId) = "L" THEN [q EXCEPT ![2] = Append(@, lockerId)]
    ELSE q

----------------------------------------------------------------------------
(* Results of the operations *)

\* MakeCode with the locker name left out of the code
MakeCode_NoLocker(lockerId, now) == to_string(now % CodeModulus)

\* bestLockerId + "-" + std::to_string(now % 10000)
MakeCode(lockerId, now) == lockerId \o <<"-">> \o to_string(now % CodeModulus)

\* "Locker " + ticket.lockerId + " opened. Package retrieved."
Confirmation(lockerId) ==
    <<"Locker ">> \o lockerId \o <<" opened. Package retrieved.">>

\* Printed naming the ticket's code instead of its locker
Printed_Code(ticket) == ticket.code

\* what cleanup prints after "Expired package removed from ": it->second.lockerId
Printed(ticket) == ticket.lockerId

\* Expired for a sweep that removes every ticket it reaches
Expired_Always(ticket, now) == TRUE

\* Expired with >= for >
Expired_AtThreshold(ticket, now) == now - ticket.creationTime >= threeDaysInMillis

\* cleanup's test of one entry
Expired(ticket, now) == now - ticket.creationTime > threeDaysInMillis

\* sweptAt when no cleanup ran since the last successful deposit
NoSweep == 0 - 1

Snapshot ==
    [queues |-> queues, activeTickets |-> activeTickets, retired |-> retired,
     sweptAt |-> sweptAt]

\* a call: its arguments (size, code), whether it returned (ok) or threw, the
\* ticket it returned or consumed, the string it returned or the size its error
\* names (result), the tickets cleanup removed in the order it met them (removed),
\* the locker names cleanup printed (reclaimed), the clock reading (now)
Op(op, size, code, ok, ticket, result, removed, reclaimed) ==
    [op |-> op, size |-> size, code |-> code, ok |-> ok, ticket |-> ticket,
     result |-> result, removed |-> removed, reclaimed |-> reclaimed, now |-> time]

NoPrev == [op |-> "none"]

\* what prev becomes when a new call begins
Remember ==
    IF lastOp.op = "deposit" /\ lastOp.ok
    THEN [op |-> "deposit", size |-> lastOp.size, ticket |-> lastOp.ticket, pre |-> pre]
    ELSE NoPrev

----------------------------------------------------------------------------
(* Threads, the mutex, the locals of a call *)

Threads == 1..NumThreads

\* the mutex when no thread holds it
Free == 0

\* the locals of deposit (requestedSize, bestLockerId), pickup (code, ticket)
\* and cleanup (now), and the table as it was when cleanup read the clock (seen)
Locals(requestedSize, code, bestLockerId, ticket, now, seen) ==
    [requestedSize |-> requestedSize, code |-> code, bestLockerId |-> bestLockerId,
     ticket |-> ticket, now |-> now, seen |-> seen]

NoLocals == Locals(SMALL, EmptyString, EmptyString, NoTicket, 0, {})

\* no call has ended yet
NoEnd == "none"

NoScan == [ticket |-> NoTicket, readAt |-> 0, scanAt |-> 0, seen |-> FALSE]

----------------------------------------------------------------------------
(* Construction *)

Init ==
    /\ queues = [k \in 0..2 |-> [i \in 1..LockersPerClass |-> LockerName(k, i - 1)]]
    /\ activeTickets = EmptyTable
    /\ time = StartTime
    /\ ticks = 0
    /\ calls = 0
    /\ lastOp = Op("init", SMALL, EmptyString, TRUE, NoTicket, EmptyString, << >>, << >>)
    /\ retired = {}
    /\ sweptAt = NoSweep
    /\ pre = Snapshot
    /\ prev = NoPrev
    /\ mtx = Free
    /\ pc = [t \in Threads |-> "idle"]
    /\ loc = [t \in Threads |-> NoLocals]
    /\ scan = NoScan
    /\ ended = NoEnd

----------------------------------------------------------------------------
(* Operations *)

\* one more call of the service
Call ==
    /\ calls < MaxCalls
    /\ calls' = calls + 1
    /\ pre' = Snapshot
    /\ prev' = Remember
    /\ UNCHANGED concvars

\* Ticket deposit(Size requestedSize)
Deposit(requestedSize) ==
    LET found == findBestFit(queues, requestedSize)
        bestLockerId == found.id
    IN  /\ Call
        /\ queues' = found.queues
        /\ IF bestLockerId = EmptyString
           THEN \* throw std::runtime_error
                /\ UNCHANGED <<activeTickets, sweptAt>>
                /\ lastOp' = Op("deposit", requestedSize, EmptyString, FALSE, NoTicket,
                                sizeToString(requestedSize), << >>, << >>)
           ELSE LET now == time
                    code == MakeCode(bestLockerId, now)
                    ticket == Ticket(bestLockerId, code, now)
                IN  /\ activeTickets' = MapPut(activeTickets, code, ticket)
                    /\ sweptAt' = NoSweep
                    /\ lastOp' = Op("deposit", requestedSize, EmptyString, TRUE, ticket,
                                    EmptyString, << >>, << >>)
        /\ UNCHANGED <<time, ticks, retired>>

\* std::string pickup(const std::string& code)
Pickup(code) ==
    /\ Call
    /\ IF ~MapFind(activeTickets, code)
       THEN \* throw std::invalid_argument
            /\ UNCHANGED <<queues, activeTickets, retired>>
            /\ lastOp' = Op("pickup", SMALL, code, FALSE, NoTicket, EmptyString,
                            << >>, << >>)
       ELSE LET ticket == MapAt(activeTickets, code)
            IN  /\ activeTickets' = MapErase(activeTickets, code)
                /\ queues' = returnLocker(queues, ticket.lockerId)
                /\ retired' = retired \cup {code}
                /\ lastOp' = Op("pickup", SMALL, code, TRUE, ticket,
                                Confirmation(ticket.lockerId), << >>, << >>)
    /\ UNCHANGED <<time, ticks, sweptAt>>

\* the orders in which an iteration can visit the keys in S
Orders(S) ==
    {o \in [1..Cardinality(S) -> S] : \A i, j \in DOMAIN o : o[i] = o[j] => i = j}

\* sweep leaving the loop after the first entry it removes
sweep_FirstOnly(q, m, order) ==
    IF order = << >> THEN [queues |-> q, activeTickets |-> m]
    ELSE [queues |-> returnLocker(q, m[Head(order)].lockerId),
          activeTickets |-> MapErase(m, Head(order))]

\* the body of cleanup's loop, run for the entries that pass its test, in the
\* order the iteration meets them: returnLocker, then erase
RECURSIVE sweep(_, _, _)
sweep(q, m, order) ==
    IF order = << >> THEN [queues |-> q, activeTickets |-> m]
    ELSE sweep(returnLocker(q, m[Head(order)].lockerId), MapErase(m, Head(order)),
               Tail(order))

\* void cleanup(): the table is scanned in the map's iteration order, which the
\* container leaves unspecified; an entry that fails the test is stepped over
Cleanup ==
    LET now == time
        expired == {c \in DOMAIN activeTickets : Expired(activeTickets[c], now)}
    IN  \E order \in Orders(expired) :
            LET met == [i \in DOMAIN order |-> activeTickets[order[i]]]
                ids == [i \in DOMAIN order |-> Printed(met[i])]
                swept == sweep(queues, activeTickets, order)
            IN  /\ Call
                /\ queues' = swept.queues
                /\ activeTickets' = swept.activeTickets
                /\ retired' = retired \cup expired
                /\ sweptAt' = now
                /\ lastOp' = Op("cleanup", SMALL, EmptyString, TRUE, NoTicket, EmptyString,
                                met, ids)
                /\ UNCHANGED <<time, ticks>>

\* mockClock->time += d
Tick ==
    /\ ticks < MaxTicks
    /\ ticks' = ticks + 1
    /\ time' = time + Advance(ticks)
    /\ pre' = Snapshot
    /\ prev' = NoPrev
    /\ lastOp' = Op("tick", SMALL, EmptyString, TRUE, NoTicket, EmptyString, << >>, << >>)
    /\ UNCHANGED <<queues, activeTickets, retired, calls, sweptAt>>
    /\ UNCHANGED concvars

\* a code no deposit issues
UnknownCode == <<"X", "-", "0", "-", "0">>

\* the codes a caller may present: active ones, retired ones, one never issued
PresentedCodes == (DOMAIN activeTickets) \cup retired \cup {UnknownCode}

Next ==
    \/ \E s \in Sizes : Deposit(s)
    \/ \E code \in PresentedCodes : Pickup(code)
    \/ Cleanup
    \/ Tick

Spec == Init /\ [][Next]_vars

----------------------------------------------------------------------------
(* The calls of several threads *)

\* std::mutex::lock returning at once, whoever holds the mutex
CanLock_Always(t) == TRUE

\* std::mutex::lock returns only when no thread holds the mutex
CanLock(t) == mtx = Free

\* the mutex after the return statement: ~lock_guard, lock.unlock()
Unlocked(t) == Free

\* Unwound for a lock taken with mtx.lock() and released only before return
Unwound_StillHeld(t) == t

\* the mutex after a throw: stack unwinding runs ~lock_guard, ~unique_lock
Unwound(t) == Free

\* a call of the service begins; the threads run the same code, so the call is
\* given to the first thread that has none under way
Invoke(t, next, locals) ==
    /\ pc[t] = "idle"
    /\ \A u \in Threads : u < t => pc[u] # "idle"
    /\ calls < MaxInvocations
    /\ calls' = calls + 1
    /\ pc' = [pc EXCEPT ![t] = next]
    /\ loc' = [loc EXCEPT ![t] = locals]
    /\ ended' = NoEnd
    /\ UNCHANGED <<queues, activeTickets, time, ticks, mtx, scan>>
    /\ UNCHANGED seqvars

\* std::lock_guard<std::mutex> lock(mtx), std::unique_lock<std::mutex> lock(mtx)
Lock(t, at, next) ==
    /\ pc[t] = at
    /\ CanLock(t)
    /\ mtx' = t
    /\ pc' = [pc EXCEPT ![t] = next]
    /\ UNCHANGED <<queues, activeTickets, time, ticks, calls, loc, scan, ended>>
    /\ UNCHANGED seqvars

\* the call of thread t ends
Return(t, outcome) ==
    /\ pc' = [pc EXCEPT ![t] = "idle"]
    /\ loc' = [loc EXCEPT ![t] = NoLocals]
    /\ ended' = outcome

StartDeposit(t, requestedSize) ==
    Invoke(t, "d_lock",
           Locals(requestedSize, EmptyString, EmptyString, NoTicket, 0, {}))

DLock(t) == Lock(t, "d_lock", "d_find")

\* deposit: findBestFit, and the throw when it returns ""
DFind(t) ==
    /\ pc[t] = "d_find"
    /\ LET found == findBestFit(queues, loc[t].requestedSize)
       IN  /\ queues' = found.queues
           /\ IF found.id = EmptyString
              THEN /\ mtx' = Unwound(t)
                   /\ Return(t, "NoCapacity")
              ELSE /\ pc' = [pc EXCEPT ![t] = "d_put"]
                   /\ loc' = [loc EXCEPT ![t].bestLockerId = found.id]
                   /\ UNCHANGED <<mtx, ended>>
    /\ UNCHANGED <<activeTickets, time, ticks, calls, scan>>
    /\ UNCHANGED seqvars

\* deposit: read the clock, record the ticket, return it
DPut(t) ==
    /\ pc[t] = "d_put"
    /\ LET now == time
           code == MakeCode(loc[t].bestLockerId, now)
           ticket == Ticket(loc[t].bestLockerId, code, now)
       IN  /\ activeTickets' = MapPut(activeTickets, code, ticket)
           \* a ticket recorded now is not one that a sweep under way saw when
           \* it read the clock
           /\ loc' = [u \in Threads |->
                        IF u = t THEN NoLocals
                                 ELSE [loc[u] EXCEPT !.seen = @ \ {ticket}]]
    /\ mtx' = Unlocked(t)
    /\ pc' = [pc EXCEPT ![t] = "idle"]
    /\ ended' = "ok"
    /\ UNCHANGED <<queues, time, ticks, calls, scan>>
    /\ UNCHANGED seqvars

StartPickup(t, code) ==
    Invoke(t, "p_lock", Locals(SMALL, code, EmptyString, NoTicket, 0, {}))

PLock(t) == Lock(t, "p_lock", "p_find")

\* pickup: find, the throw when the code is absent, else copy and erase
PFind(t) ==
    /\ pc[t] = "p_find"
    /\ IF ~MapFind(activeTickets, loc[t].code)
       THEN /\ mtx' = Unwound(t)
            /\ Return(t, "InvalidCode")
            /\ UNCHANGED activeTickets
       ELSE /\ loc' = [loc EXCEPT ![t].ticket = MapAt(activeTickets, loc[t].code)]
            /\ activeTickets' = MapErase(activeTickets, loc[t].code)
            /\ pc' = [pc EXCEPT ![t] = "p_return"]
            /\ UNCHANGED <<mtx, ended>>
    /\ UNCHANGED <<queues, time, ticks, calls, scan>>
    /\ UNCHANGED seqvars

\* pickup: returnLocker, unlock, return the confirmation
PReturn(t) ==
    /\ pc[t] = "p_return"
    /\ queues' = returnLocker(queues, loc[t].ticket.lockerId)
    /\ mtx' = Unlocked(t)
    /\ Return(t, "ok")
    /\ UNCHANGED <<activeTickets, time, ticks, calls, scan>>
    /\ UNCHANGED seqvars

\* cleanup: the clock is read before the mutex is taken
StartCleanup(t) ==
    Invoke(t, "c_lock",
           Locals(SMALL, EmptyString, EmptyString, NoTicket, time,
                  {activeTickets[c] : c \in DOMAIN activeTickets}))

CLock(t) == Lock(t, "c_lock", "c_scan")

\* cleanup: the loop reaches an entry that passes the test (any of them: the
\* iteration order is unspecified) and returns its locker, or reaches end()
CVisit(t) ==
    /\ pc[t] = "c_scan"
    /\ LET expired == {c \in DOMAIN activeTickets : Expired(activeTickets[c], loc[t].now)}
       IN  IF expired = {}
           THEN /\ mtx' = Unlocked(t)
                /\ Return(t, "ok")
                /\ UNCHANGED queues
           ELSE \E it \in expired :
                    /\ queues' = returnLocker(queues, activeTickets[it].lockerId)
                    /\ loc' = [loc EXCEPT ![t].code = it]
                    /\ pc' = [pc EXCEPT ![t] = "c_erase"]
                    /\ UNCHANGED <<mtx, ended>>
    /\ scan' = NoScan
    /\ UNCHANGED <<activeTickets, time, ticks, calls>>
    /\ UNCHANGED seqvars

\* cleanup: it = activeTickets.erase(it)
CErase(t) ==
    /\ pc[t] = "c_erase"
    /\ scan' = [ticket |-> activeTickets[loc[t].code], readAt |-> loc[t].now,
                scanAt |-> time, seen |-> activeTickets[loc[t].code] \in loc[t].seen]
    /\ activeTickets' = MapErase(activeTickets, loc[t].code)
    /\ pc' = [pc EXCEPT ![t] = "c_scan"]
    /\ loc' = [loc EXCEPT ![t].code = EmptyString]
    /\ UNCHANGED <<queues, time, ticks, calls, mtx, ended>>
    /\ UNCHANGED seqvars

\* the amount the clock moves on by at its n-th advance while the threads run:
\* the retention threshold, then one millisecond at a time, so that a ticket
\* reaches the ages threshold, threshold + 1, threshold + 2 in as many advances
Elapse(n) == IF n = 0 THEN threeDaysInMillis ELSE 1

\* the clock moves on while the threads run; it never goes back
ClockAdvance ==
    /\ ticks < MaxTicks
    /\ ticks' = ticks + 1
    /\ time' = time + Elapse(ticks)
    /\ UNCHANGED <<queues, activeTickets, calls>>
    /\ UNCHANGED concvars
    /\ UNCHANGED seqvars

\* the steps of a call of thread t that is under way
Proceed(t) ==
    \/ DLock(t) \/ DFind(t) \/ DPut(t)
    \/ PLock(t) \/ PFind(t) \/ PReturn(t)
    \/ CLock(t) \/ CVisit(t) \/ CErase(t)

NextConc ==
    \/ \E t \in Threads : \E s \in Sizes : StartDeposit(t, s)
    \/ \E t \in Threads : \E code \in (DOMAIN activeTickets) \cup {UnknownCode} :
          StartPickup(t, code)
    \/ \E t \in Threads : StartCleanup(t)
    \/ \E t \in Threads : Proceed(t)
    \/ ClockAdvance

\* a thread whose call is under way is scheduled again
SpecConc == Init /\ [][NextConc]_vars /\ \A t \in Threads : WF_vars(Proceed(t))

----------------------------------------------------------------------------
(* Vocabulary of the properties *)

\* the size class a locker name belongs to, read off its first character
ClassOf(lockerId) == CHOOSE k \in 0..2 : ClassPrefix[k] = Head(lockerId)

Elems(seq) == {seq[i] : i \in DOMAIN seq}

\* the positions of the pools
Slots(q) == UNION {{<<k, i>> : i \in DOMAIN q[k]} : k \in 0..2}

\* how many times a locker occurs in the pools
Occurrences(q, lockerId) == Cardinality({p \in Slots(q) : q[p[1]][p[2]] = lockerId})

\* the codes of the tickets that reference a locker
Holders(m, lockerId) == {c \in DOMAIN m : m[c].lockerId = lockerId}

\* the classes a deposit of size s searches, in order
Candidates(s) == s..2

DepositOk == lastOp.op = "deposit" /\ lastOp.ok

DepositFailed == lastOp.op = "deposit" /\ ~lastOp.ok

PickupOk == lastOp.op = "pickup" /\ lastOp.ok

PickupFailed == lastOp.op = "pickup" /\ ~lastOp.ok

----------------------------------------------------------------------------
(* Properties *)

\* C1 (conservation): in every reachable state every locker of the initial
\* inventory is in exactly one place: once in the pools and in no ticket, or in
\* no pool and in exactly one active ticket; the pools and the tickets hold no
\* locker outside the inventory.
Conservation ==
    /\ \A l \in Inventory :
          Occurrences(queues, l) + Cardinality(Holders(activeTickets, l)) = 1
    /\ \A k \in 0..2 : Elems(queues[k]) \subseteq Inventory
    /\ \A c \in DOMAIN activeTickets : activeTickets[c].lockerId \in Inventory

\* a sweep has just reclaimed a locker while another ticket stays active and a
\* picked-up locker is back in a pool
ConservationWitness ==
    /\ lastOp.op = "cleanup"
    /\ lastOp.reclaimed # << >>
    /\ DOMAIN activeTickets # {}
    /\ retired # {}
    /\ Conservation

\* C2 (best-fit-upward): a successful deposit(c) allocates the head of the pool
\* of the smallest class >= c that was non-empty when the call began.
BestFitUpward ==
    DepositOk =>
        LET k == ClassOf(lastOp.ticket.lockerId)
        IN  /\ k \in Candidates(lastOp.size)
            /\ pre.queues[k] # << >>
            /\ lastOp.ticket.lockerId = Head(pre.queues[k])
            /\ \A j \in Candidates(lastOp.size) : j < k => pre.queues[j] = << >>

\* deposit(SMALL) with pool_S empty, pool_M and pool_L non-empty got an M locker
BestFitUpwardWitness ==
    /\ DepositOk
    /\ lastOp.size = SMALL
    /\ pre.queues[0] = << >>
    /\ pre.queues[1] # << >>
    /\ pre.queues[2] # << >>
    /\ Head(lastOp.ticket.lockerId) = "M"

\* C3 (no downward fallback): deposit(c) fails, naming c, exactly when the pools
\* of c and of all larger classes were empty when the call began, and a
\* successful deposit never returns a locker of a class smaller than c.
NoDownwardFallback ==
    lastOp.op = "deposit" =>
        /\ ~lastOp.ok <=> \A j \in Candidates(lastOp.size) : pre.queues[j] = << >>
        /\ ~lastOp.ok => lastOp.result = sizeToString(lastOp.size)
        /\ lastOp.ok => ClassOf(lastOp.ticket.lockerId) >= lastOp.size

\* deposit(LARGE) failed while pool_S and pool_M held free lockers
NoDownwardFallbackWitness ==
    /\ DepositFailed
    /\ lastOp.size = LARGE
    /\ pre.queues[0] # << >>
    /\ pre.queues[1] # << >>

\* C4 (failures leave the state unchanged): after a deposit that failed with
\* NoCapacity or a pickup that failed with InvalidCode, the pools (contents and
\* order) and the ticket table are what they were when the call began.
FailureLeavesState ==
    (DepositFailed \/ PickupFailed) =>
        /\ queues = pre.queues
        /\ activeTickets = pre.activeTickets

\* a deposit failed while smaller pools held lockers and tickets were active
FailureLeavesStateWitness ==
    /\ DepositFailed
    /\ queues[0] # << >>
    /\ queues[1] # << >>
    /\ DOMAIN activeTickets # {}

\* C5 (pickup): pickup(code) succeeds exactly when code was a key of the table
\* when the call began; then the confirmation names the locker of the ticket
\* stored under code, and a failed pickup produces no confirmation.
PickupByLookup ==
    lastOp.op = "pickup" =>
        /\ lastOp.ok <=> lastOp.code \in DOMAIN pre.activeTickets
        /\ lastOp.ok =>
              /\ lastOp.ticket = pre.activeTickets[lastOp.code]
              /\ lastOp.result = Confirmation(pre.activeTickets[lastOp.code].lockerId)
        /\ ~lastOp.ok => lastOp.result = EmptyString

\* a pickup succeeded on a table that held several tickets
PickupByLookupWitness ==
    /\ PickupOk
    /\ Cardinality(DOMAIN pre.activeTickets) >= 2

\* C6 as stated (a retired code stays invalid): a pickup never succeeds with a
\* code that was retired, by a pickup or by a sweep, before the call began.
RetiredStaysInvalid == PickupOk => lastOp.code \notin pre.retired

\* C6 as amended: a retired code stays invalid until a deposit issues the same
\* code again. The call that retires a ticket leaves its code out of the table;
\* a code enters the table only by a successful deposit that returns exactly
\* that code, built from the locker it allocated and the instant modulo 10000;
\* so a pickup with a code that was retired and was not in the table when the
\* call began fails.
RetiredUntilReissued ==
    /\ PickupOk => lastOp.code \notin DOMAIN activeTickets
    /\ lastOp.op = "cleanup" =>
          \A i \in DOMAIN lastOp.removed : lastOp.removed[i].code \notin DOMAIN activeTickets
    /\ \A c \in (DOMAIN activeTickets) \ (DOMAIN pre.activeTickets) :
          /\ DepositOk
          /\ lastOp.ticket.code = c
          /\ c = lastOp.ticket.lockerId \o <<"-">> \o to_string(lastOp.now % 10000)
    /\ (lastOp.op = "pickup" /\ lastOp.code \in pre.retired
            /\ lastOp.code \notin DOMAIN pre.activeTickets) => ~lastOp.ok

\* a deposit has just issued a code that had been retired
RetiredUntilReissuedWitness ==
    /\ DepositOk
    /\ lastOp.ticket.code \in pre.retired
    /\ lastOp.ticket.code \in DOMAIN activeTickets

\* C7 as stated (pickup rejects an expired code): a pickup with the code of a
\* ticket in the table whose age exceeds three days fails.
ExpiredPickupFails ==
    (/\ lastOp.op = "pickup"
     /\ lastOp.code \in DOMAIN pre.activeTickets
     /\ lastOp.now - pre.activeTickets[lastOp.code].creationTime > threeDaysInMillis)
    => ~lastOp.ok

\* C7 as amended: pickup does not look at a ticket's age. A pickup with the code
\* of a ticket older than three days that is still in the table succeeds, names
\* the ticket's locker and returns it to its pool; the code is invalid only once
\* a sweep has removed the ticket, which every sweep does for every ticket older
\* than three days.
ExpiredInvalidOnceSwept ==
    /\ (/\ lastOp.op = "pickup"
         /\ lastOp.code \in DOMAIN pre.activeTickets
         /\ lastOp.now - pre.activeTickets[lastOp.code].creationTime > threeDaysInMillis)
        => /\ lastOp.ok
           /\ lastOp.result = Confirmation(pre.activeTickets[lastOp.code].lockerId)
           /\ Occurrences(queues, pre.activeTickets[lastOp.code].lockerId) = 1
    /\ lastOp.op = "cleanup" =>
          \A c \in DOMAIN pre.activeTickets :
              lastOp.now - pre.activeTickets[c].creationTime > threeDaysInMillis
                  => c \notin DOMAIN activeTickets

\* a pickup has just opened the locker of a ticket older than three days
ExpiredInvalidOnceSweptWitness ==
    /\ PickupOk
    /\ lastOp.now - lastOp.ticket.creationTime > threeDaysInMillis

\* C8 (codes unique among active tickets): the code a successful deposit
\* generates was no key of the table when the call began, so the deposit adds
\* one entry and leaves every earlier entry as it was; hence every allocated
\* locker has its own ticket.
UniqueActiveCodes ==
    /\ DepositOk =>
          /\ lastOp.ticket.code \notin DOMAIN pre.activeTickets
          /\ DOMAIN activeTickets = (DOMAIN pre.activeTickets) \cup {lastOp.ticket.code}
          /\ \A c \in DOMAIN pre.activeTickets : activeTickets[c] = pre.activeTickets[c]
    /\ Cardinality(DOMAIN activeTickets) + Cardinality(Slots(queues)) = 3 * LockersPerClass

\* a deposit at an instant at which another active ticket was created, while a
\* third active ticket was created at another instant equal to it modulo 10000
UniqueActiveCodesWitness ==
    /\ DepositOk
    /\ \E c \in DOMAIN pre.activeTickets :
          pre.activeTickets[c].creationTime = lastOp.now
    /\ \E c \in DOMAIN pre.activeTickets :
          /\ pre.activeTickets[c].creationTime # lastOp.now
          /\ pre.activeTickets[c].creationTime % 10000 = lastOp.now % 10000

\* C9 (round trip): a successful deposit followed at once by a pickup of the
\* returned code: the pickup succeeds, the allocated locker is back in the pool
\* of its own class, every pool holds the set of lockers it held before the
\* deposit and the ticket table is what it was before the deposit.
RoundTrip ==
    (prev.op = "deposit" /\ lastOp.op = "pickup" /\ lastOp.code = prev.ticket.code) =>
        /\ lastOp.ok
        /\ lastOp.ticket = prev.ticket
        /\ prev.ticket.lockerId \in Elems(queues[ClassOf(prev.ticket.lockerId)])
        /\ \A k \in 0..2 :
              /\ Elems(queues[k]) = Elems(prev.pre.queues[k])
              /\ Len(queues[k]) = Len(prev.pre.queues[k])
        /\ activeTickets = prev.pre.activeTickets

\* a round trip of a locker allocated by upward fallback, which came back to
\* the tail of its pool while other tickets were active
RoundTripWitness ==
    /\ prev.op = "deposit"
    /\ PickupOk
    /\ lastOp.code = prev.ticket.code
    /\ prev.size < ClassOf(prev.ticket.lockerId)
    /\ queues # prev.pre.queues
    /\ DOMAIN activeTickets # {}

\* the tickets of the table m that a sweep at instant now has to remove
Overdue(m, now) == {c \in DOMAIN m : now - m[c].creationTime > 259200000}

\* C10 (expiry boundary): a sweep at instant now removes exactly the tickets with
\* now - creationTime strictly greater than three days in milliseconds, leaves
\* every other ticket as it was, leaves every free locker where it was and
\* appends the lockers of the removed tickets to the pools of their classes; a
\* ticket survives a sweep at ages retention - 1 and retention and is removed
\* at age retention + 1.
ExpiryBoundary ==
    lastOp.op = "cleanup" =>
        LET old == Overdue(pre.activeTickets, lastOp.now)
            back(k) == {pre.activeTickets[c].lockerId : c \in
                          {d \in old : ClassOf(pre.activeTickets[d].lockerId) = k}}
        IN  /\ DOMAIN activeTickets = (DOMAIN pre.activeTickets) \ old
            /\ \A c \in DOMAIN activeTickets : activeTickets[c] = pre.activeTickets[c]
            /\ {lastOp.removed[i] : i \in DOMAIN lastOp.removed}
                  = {pre.activeTickets[c] : c \in old}
            /\ \A k \in 0..2 :
                  /\ Len(queues[k]) = Len(pre.queues[k]) + Cardinality(back(k))
                  /\ SubSeq(queues[k], 1, Len(pre.queues[k])) = pre.queues[k]
                  /\ Elems(queues[k]) = Elems(pre.queues[k]) \cup back(k)
            /\ \A c \in DOMAIN pre.activeTickets :
                  LET age == lastOp.now - pre.activeTickets[c].creationTime
                  IN  /\ age \in {259200000 - 1, 259200000} => c \in DOMAIN activeTickets
                      /\ age = 259200000 + 1 => c \notin DOMAIN activeTickets

\* one sweep removed a ticket of age retention + 1 and left one of age retention
ExpiryBoundaryWitness ==
    /\ lastOp.op = "cleanup"
    /\ \E i \in DOMAIN lastOp.removed :
          lastOp.now - lastOp.removed[i].creationTime = 259200000 + 1
    /\ \E c \in DOMAIN activeTickets :
          lastOp.now - activeTickets[c].creationTime = 259200000

\* a sweep left a ticket of age retention - 1
ExpiryBelowWitness ==
    /\ lastOp.op = "cleanup"
    /\ \E c \in DOMAIN activeTickets :
          lastOp.now - activeTickets[c].creationTime = 259200000 - 1

\* C14 (FIFO allocation and reuse): a successful deposit removes the head of the
\* chosen pool and leaves the rest of that pool in order (the first deposit
\* served by a pool gets its locker 0); a successful pickup appends the locker
\* at the tail of its pool, behind every locker already free there; so a
\* deposit served by a pool that held one locker gets that locker.
FifoAllocation ==
    /\ DepositOk =>
          LET k == ClassOf(lastOp.ticket.lockerId)
          IN  /\ pre.queues[k] # << >>
              /\ lastOp.ticket.lockerId = Head(pre.queues[k])
              /\ queues[k] = Tail(pre.queues[k])
              /\ (calls = 1 => lastOp.ticket.lockerId = <<ClassPrefix[k], "-", "0">>)
              /\ (Len(pre.queues[k]) = 1 => Elems(pre.queues[k]) = {lastOp.ticket.lockerId})
    /\ PickupOk =>
          LET k == ClassOf(lastOp.ticket.lockerId)
          IN  /\ queues[k] = pre.queues[k] \o <<lastOp.ticket.lockerId>>
              /\ \A i \in DOMAIN pre.queues[k] : queues[k][i] = pre.queues[k][i]

\* a deposit served by a pool whose only free locker had been picked up before
\* got that locker again
FifoAllocationWitness ==
    /\ DepositOk
    /\ Len(pre.queues[ClassOf(lastOp.ticket.lockerId)]) = 1
    /\ \E c \in pre.retired : SubSeq(c, 1, 3) = lastOp.ticket.lockerId

\* C15 (pool class purity): every pool holds only lockers of its own class; a
\* locker handed out by upward fallback comes back, by pickup or by sweep, to
\* the pool of the locker's class and not to the pool of the requested class.
PoolClassPurity ==
    /\ \A k \in 0..2 : \A i \in DOMAIN queues[k] : Head(queues[k][i]) = ClassPrefix[k]
    /\ PickupOk =>
          \A k \in 0..2 :
              (lastOp.ticket.lockerId \in Elems(queues[k]))
                  <=> (Head(lastOp.ticket.lockerId) = ClassPrefix[k])
    /\ lastOp.op = "cleanup" =>
          \A i \in DOMAIN lastOp.removed : \A k \in 0..2 :
              (lastOp.removed[i].lockerId \in Elems(queues[k]))
                  <=> (Head(lastOp.removed[i].lockerId) = ClassPrefix[k])

\* an M locker handed out for a SMALL request has just been picked up and is
\* at the tail of pool_M, not in pool_S
PoolClassPurityWitness ==
    /\ PickupOk
    /\ prev.op = "deposit"
    /\ prev.size = SMALL
    /\ prev.ticket = lastOp.ticket
    /\ Head(lastOp.ticket.lockerId) = "M"
    /\ queues[1][Len(queues[1])] = lastOp.ticket.lockerId
    /\ lastOp.ticket.lockerId \notin Elems(queues[0])

\* C16 (effect of a successful deposit): one locker, the head of the chosen
\* pool, leaves the pools and the other pools are unchanged; the table gains
\* one entry, the returned ticket, which holds that locker and the clock's
\* current instant; every ticket active before is unchanged.
DepositEffect ==
    DepositOk =>
        LET k == ClassOf(lastOp.ticket.lockerId)
            t == lastOp.ticket
        IN  /\ pre.queues[k] # << >>
            /\ t.lockerId = Head(pre.queues[k])
            /\ queues = [pre.queues EXCEPT ![k] = Tail(@)]
            /\ t.code \notin DOMAIN pre.activeTickets
            /\ DOMAIN activeTickets = (DOMAIN pre.activeTickets) \cup {t.code}
            /\ activeTickets[t.code] = t
            /\ t.creationTime = time
            /\ t.creationTime = lastOp.now
            /\ \A c \in DOMAIN pre.activeTickets : activeTickets[c] = pre.activeTickets[c]

\* a deposit by upward fallback into a table that held tickets, after the
\* clock was advanced
DepositEffectWitness ==
    /\ DepositOk
    /\ lastOp.size # ClassOf(lastOp.ticket.lockerId)
    /\ DOMAIN pre.activeTickets # {}
    /\ lastOp.ticket.creationTime > 1000

\* C17 (effect of a successful pickup): the ticket stored under the code, and
\* no other, leaves the table; its locker is appended to the pool of its class;
\* every other ticket, every other pool and the order of the lockers already
\* free are unchanged.
PickupEffect ==
    PickupOk =>
        LET t == pre.activeTickets[lastOp.code]
            k == ClassOf(t.lockerId)
        IN  /\ lastOp.code \in DOMAIN pre.activeTickets
            /\ DOMAIN activeTickets = (DOMAIN pre.activeTickets) \ {lastOp.code}
            /\ \A c \in DOMAIN activeTickets : activeTickets[c] = pre.activeTickets[c]
            /\ queues = [pre.queues EXCEPT ![k] = Append(@, t.lockerId)]

\* a pickup from a table that held other tickets, into a pool that held lockers
PickupEffectWitness ==
    /\ PickupOk
    /\ DOMAIN activeTickets # {}
    /\ Len(queues[ClassOf(lastOp.ticket.lockerId)]) >= 2

\* C18 (sweep reporting): a sweep prints one line per ticket it removes, naming
\* that ticket's locker, and none for a ticket it leaves; a sweep that removes
\* nothing prints nothing.
SweepReporting ==
    lastOp.op = "cleanup" =>
        LET gone == (DOMAIN pre.activeTickets) \ (DOMAIN activeTickets)
        IN  /\ Len(lastOp.reclaimed) = Cardinality(gone)
            /\ {lastOp.reclaimed[i] : i \in DOMAIN lastOp.reclaimed}
                  = {pre.activeTickets[c].lockerId : c \in gone}
            /\ \A i, j \in DOMAIN lastOp.reclaimed :
                  lastOp.reclaimed[i] = lastOp.reclaimed[j] => i = j
            /\ \A c \in DOMAIN activeTickets :
                  \A i \in DOMAIN lastOp.reclaimed :
                      lastOp.reclaimed[i] # activeTickets[c].lockerId
            /\ (activeTickets = pre.activeTickets => lastOp.reclaimed = << >>)

\* a sweep removed two tickets, left a third and printed two lines
SweepReportingWitness ==
    /\ lastOp.op = "cleanup"
    /\ Len(lastOp.reclaimed) = 2
    /\ DOMAIN activeTickets # {}

\* a sweep of a table that held tickets removed nothing and printed nothing
SweepSilentWitness ==
    /\ lastOp.op = "cleanup"
    /\ lastOp.reclaimed = << >>
    /\ DOMAIN activeTickets # {}

\* C20 (key consistency): every entry of the table is stored under its
\* ticket's code, which is the ticket's lockerId, '-' and creationTime mod
\* 10000; a call leaves the fields of every ticket that stays in the table as
\* they were.
KeyConsistency ==
    /\ \A c \in DOMAIN activeTickets :
          /\ activeTickets[c].code = c
          /\ c = activeTickets[c].lockerId \o <<"-">>
                    \o to_string(activeTickets[c].creationTime % 10000)
    /\ \A c \in (DOMAIN activeTickets) \cap (DOMAIN pre.activeTickets) :
          activeTickets[c] = pre.activeTickets[c]

\* tickets created at different instants are in the table after a pickup and
\* a sweep
KeyConsistencyWitness ==
    /\ \E c, d \in DOMAIN activeTickets :
          activeTickets[c].creationTime # activeTickets[d].creationTime
    /\ retired # {}
    /\ lastOp.op = "cleanup"

\* the last call was a cleanup, an earlier cleanup ran and no deposit succeeded
\* between the two
SecondSweep == lastOp.op = "cleanup" /\ pre.sweptAt # NoSweep

\* the last call was a cleanup that removed and printed nothing and left the
\* pools and the table as they were
SweepWasNoOp ==
    /\ lastOp.removed = << >>
    /\ lastOp.reclaimed = << >>
    /\ queues = pre.queues
    /\ activeTickets = pre.activeTickets

\* C11 as stated (idempotent sweep): a sweep that follows a sweep with no
\* deposit between the two reclaims nothing and changes nothing.
IdempotentSweep == SecondSweep => SweepWasNoOp

\* C11 as amended: a sweep that follows a sweep with no deposit between the
\* two is a no-op when no ticket's age crossed the retention threshold between
\* the two clock readings, in particular when the clock reads the same; the
\* tickets it removes otherwise are those whose age crossed the threshold.
IdempotentSweepAtSameAges ==
    SecondSweep =>
        /\ (\A c \in DOMAIN pre.activeTickets :
               lastOp.now - pre.activeTickets[c].creationTime > 259200000
                   => pre.sweptAt - pre.activeTickets[c].creationTime > 259200000)
             => SweepWasNoOp
        /\ lastOp.now = pre.sweptAt => SweepWasNoOp
        /\ \A i \in DOMAIN lastOp.removed :
               /\ lastOp.now - lastOp.removed[i].creationTime > 259200000
               /\ ~(pre.sweptAt - lastOp.removed[i].creationTime > 259200000)

\* a second sweep at the clock reading of the first, which had removed a
\* ticket, left the remaining tickets in place
IdempotentSweepWitness ==
    /\ SecondSweep
    /\ lastOp.now = pre.sweptAt
    /\ calls = 4
    /\ Cardinality(pre.retired) = 1
    /\ DOMAIN activeTickets # {}
    /\ SweepWasNoOp

----------------------------------------------------------------------------
(* Properties of the calls of several threads *)

\* thread t is between taking the mutex and releasing it
InCriticalSection(t) == pc[t] \in {"d_find", "d_put", "p_find", "p_return", "c_scan", "c_erase"}

\* thread t holds the mutex and is about to read the pools or the table
Observes(t) == pc[t] \in {"d_find", "p_find", "c_scan"}

\* thread t waits for the mutex
AtLock(t) == pc[t] \in {"d_lock", "p_lock", "c_lock"}

\* C12 (atomicity under concurrency): a thread between the first and the last
\* access of its call to the pools or the ticket table holds the mutex, no two
\* threads are there at once, and whenever a thread is about to read the pools
\* or the table, or no thread holds the mutex, every locker is in exactly one
\* place (in a pool or in one active ticket, never in neither, never in both).
Atomicity ==
    /\ \A t \in Threads : InCriticalSection(t) => mtx = t
    /\ \A t, u \in Threads : InCriticalSection(t) /\ InCriticalSection(u) => t = u
    /\ \A t \in Threads : Observes(t) => Conservation
    /\ mtx = Free => Conservation

\* a sweep has returned a locker to its pool and not yet erased the ticket, so
\* the locker is in both places, while another thread waits for the mutex
AtomicityWitness ==
    \E t, u \in Threads :
        /\ pc[t] = "c_erase"
        /\ AtLock(u)
        /\ \E l \in Inventory :
              Occurrences(queues, l) + Cardinality(Holders(activeTickets, l)) = 2

\* a pickup has erased the ticket and not yet returned the locker, so the locker
\* is in neither place, while another thread waits for the mutex
AtomicityTornPickupWitness ==
    \E t, u \in Threads :
        /\ pc[t] = "p_return"
        /\ AtLock(u)
        /\ \E l \in Inventory :
              Occurrences(queues, l) + Cardinality(Holders(activeTickets, l)) = 0

\* C13 (no operation blocks indefinitely): when the threads are scheduled
\* fairly, every call under way returns or raises its error (each thread is
\* again and again without a call under way), and a thread whose call has
\* ended, by a return or by NoCapacity or InvalidCode, does not hold the mutex.
NoIndefiniteBlocking ==
    /\ \A t \in Threads : []<>(pc[t] = "idle")
    /\ [](\A t \in Threads : pc[t] = "idle" => mtx # t)

\* the call that ended last ended with NoCapacity or InvalidCode, and another
\* thread holds the mutex, which it took after that
NoIndefiniteBlockingWitness ==
    \E t, u \in Threads :
        /\ pc[t] = "idle"
        /\ ended \in {"NoCapacity", "InvalidCode"}
        /\ InCriticalSection(u)
        /\ mtx = u

\* a deposit has ended with NoCapacity and the mutex is free
NoCapacityReleasedWitness ==
    \E t \in Threads :
        /\ pc[t] = "idle"
        /\ ended = "NoCapacity"
        /\ mtx = Free

\* C19 (sweep with a stale clock reading): a ticket that a sweep erases is older
\* than the retention threshold at the moment of the erase, it was in the table
\* when the sweep read the clock and was not deposited since, and the clock read
\* is not later than the clock at the erase.
StaleClockSweep ==
    scan.ticket # NoTicket =>
        /\ scan.scanAt - scan.ticket.creationTime > threeDaysInMillis
        /\ scan.seen
        /\ scan.readAt <= scan.scanAt

\* a sweep read the clock, the clock moved on and a deposit recorded a ticket
\* before the sweep took the mutex, and the sweep has erased an older ticket at
\* a later instant than its reading and kept the new one
StaleClockSweepWitness ==
    \E t \in Threads :
        /\ pc[t] = "c_scan"
        /\ scan.ticket # NoTicket
        /\ scan.readAt = loc[t].now
        /\ scan.readAt < scan.scanAt
        /\ \E c \in DOMAIN activeTickets :
              /\ activeTickets[c] \notin loc[t].seen
              /\ activeTickets[c].creationTime > loc[t].now

====
